---- MODULE Spec2Model ----
(***************************************************************************)
(* Model of etl.py: the batch job that truncates the sink tables, loads    *)
(* the two reference tables, streams Covid19Casos.csv in chunks through a  *)
(* fixed filter sequence into covid19_case, and finally deletes duplicate  *)
(* rows on covid_case_csv_id.                                              *)
(*                                                                         *)
(* A CSV field is a sequence of one-character strings; the empty sequence  *)
(* is the empty field.  A dataframe cell is one of                         *)
(*   [k |-> "nan"]                   missing value                         *)
(*   [k |-> "int",   v |-> n]        value n of an int64 column            *)
(*   [k |-> "float", v |-> t]        value t/10 of a float64 column        *)
(*   [k |-> "str",   s |-> chars]    string of an object column            *)
(***************************************************************************)
EXTENDS Integers, Sequences, FiniteSets, TLC

VARIABLES
    pc,       \* position of the script
    header,   \* column names of Covid19Casos.csv
    table,    \* rows of covid19_case
    nextKey,  \* next surrogate key covid_case_id the sink hands out
    chunkNo,  \* number of chunks the read_csv iterator has yielded
    eof,      \* the iterator has yielded a short (hence last) chunk
    log,      \* history of the statements sent to the sink
    df,       \* a chunk dataframe after projection and rename
    out       \* results of applying the filter sequence to df

vars == <<pc, header, table, nextKey, chunkNo, eof, log, df, out>>

----------------------------------------------------------------------------
(* Bounds *)

ChunkSize == 2

MaxChunks == 2

MaxPrior == 2

MaxTableRows == 4

----------------------------------------------------------------------------
(* Columns *)

columns ==
    << "id_evento_caso", "sexo", "edad", "fecha_inicio_sintomas", "fecha_apertura",
       "fecha_fallecimiento", "asistencia_respiratoria_mecanica", "carga_provincia_id",
       "clasificacion_resumen", "residencia_provincia_id", "fecha_diagnostico",
       "residencia_departamento_id", "ultima_actualizacion" >>

SourceColumns == {columns[i] : i \in 1..Len(columns)}

TargetYear == <<"2", "0", "2", "2">>

----------------------------------------------------------------------------
(* Cells and the conversions pandas applies to them *)

NaN == [k |-> "nan"]

Digit == {"0", "1", "2", "3", "4", "5", "6", "7", "8", "9"}

DigitVal(c) ==
    CASE c = "0" -> 0 [] c = "1" -> 1 [] c = "2" -> 2 [] c = "3" -> 3 [] c = "4" -> 4
      [] c = "5" -> 5 [] c = "6" -> 6 [] c = "7" -> 7 [] c = "8" -> 8 [] c = "9" -> 9

IsDigits(s) == s # <<>> /\ \A i \in 1..Len(s) : s[i] \in Digit

IsDecimal(s) ==
    \E i \in 1..Len(s) :
        /\ s[i] = "."
        /\ IsDigits(SubSeq(s, 1, i - 1))
        /\ IsDigits(SubSeq(s, i + 1, Len(s)))

IsNumeric(s) == IsDigits(s) \/ IsDecimal(s)

RECURSIVE IntVal(_)
IntVal(s) ==
    IF s = <<>> THEN 0
    ELSE IntVal(SubSeq(s, 1, Len(s) - 1)) * 10 + DigitVal(s[Len(s)])

\* The value of a numeric field in tenths (a float64 cell holds tenths).
Tenths(s) ==
    IF IsDigits(s) THEN IntVal(s) * 10
    ELSE LET i == CHOOSE j \in 1..Len(s) : s[j] = "."
         IN  IntVal(SubSeq(s, 1, i - 1)) * 10 + DigitVal(s[i + 1])

\* read_csv's type inference for one column of a chunk.
InferDtype(fields) ==
    IF \A i \in 1..Len(fields) : fields[i] # <<>> /\ IsDigits(fields[i]) THEN "int64"
    ELSE IF \A i \in 1..Len(fields) : fields[i] = <<>> \/ IsNumeric(fields[i]) THEN "float64"
    ELSE "object"

ParseCell(s, dtype) ==
    IF s = <<>> THEN NaN
    ELSE IF dtype = "int64" THEN [k |-> "int", v |-> IntVal(s)]
    ELSE IF dtype = "float64" THEN [k |-> "float", v |-> Tenths(s)]
    ELSE [k |-> "str", s |-> s]

\* Series.str[:n] on one string.
StrSlice(s, n) == SubSeq(s, 1, IF Len(s) < n THEN Len(s) ELSE n)

\* The sequence of Op(s[i]).
MapSeq(s, Op(_)) ==
    LET RECURSIVE map(_)
        map(n) == IF n = 0 THEN <<>> ELSE Append(map(n - 1), Op(s[n]))
    IN  map(Len(s))

----------------------------------------------------------------------------
(* The source file: fields a row of Covid19Casos.csv may hold *)

IdFields == {<<>>, <<"1">>, <<"2">>}

AgeFields == {<<>>, <<"4", "5">>, <<"4", ".", "5">>, <<"a", "b">>}

DateFields == {<<>>, <<"2", "0", "2", "2", "-">>, <<"2", "0", "2", "1", "-">>, <<"2", "0", "2">>}

StateFields == {<<"0">>, <<"5">>}

\* What every other column holds.
OtherField == <<"M">>

\* A column of the file that the projection does not select.
ExtraColumn == "origen_financiamiento"

VaryingFields ==
    [ id_evento_caso : IdFields, edad : AgeFields,
      fecha_apertura : DateFields, carga_provincia_id : StateFields ]

\* A line of the file, by column name.
RawRow(v) ==
    [ id_evento_caso |-> v.id_evento_caso,
      sexo |-> OtherField,
      edad |-> v.edad,
      fecha_inicio_sintomas |-> OtherField,
      fecha_apertura |-> v.fecha_apertura,
      fecha_fallecimiento |-> OtherField,
      asistencia_respiratoria_mecanica |-> OtherField,
      carga_provincia_id |-> v.carga_provincia_id,
      clasificacion_resumen |-> OtherField,
      residencia_provincia_id |-> OtherField,
      fecha_diagnostico |-> OtherField,
      residencia_departamento_id |-> OtherField,
      ultima_actualizacion |-> OtherField,
      origen_financiamiento |-> OtherField ]

FullHeader == SourceColumns \cup {ExtraColumn}

\* The file has every projected column, or lacks one of these.
Headers ==
    {FullHeader} \cup
    { FullHeader \ {c} :
        c \in {"id_evento_caso", "sexo", "edad", "fecha_apertura", "carga_provincia_id"} }

\* The lines of a file with header h: a column the file lacks holds nothing.
RawRows(h) ==
    { RawRow(v) : v \in {w \in VaryingFields : \A c \in DOMAIN w : c \in h \/ w[c] = <<>>} }

\* The chunks the iterator may yield: at most ChunkSize lines each.
RawChunks(h) == UNION { [1..n -> RawRows(h)] : n \in 1..ChunkSize }

----------------------------------------------------------------------------
(* Dataframes: [dtypes, rows], a row being [idx, cells] *)

\* The cell of a column the dataframe does not have, and the column's dtype.
Absent == [k |-> "absent"]

NoDtype == "absent"

ColumnDtype(raw, c, h) ==
    IF c \in h THEN InferDtype([i \in 1..Len(raw) |-> raw[i][c]]) ELSE NoDtype

ReadCell(raw, i, c, h, dtype) ==
    IF c \in h THEN ParseCell(raw[i][c], dtype) ELSE Absent

ReadDtypes(raw, h) ==
    [ id_evento_caso |-> ColumnDtype(raw, "id_evento_caso", h),
      sexo |-> ColumnDtype(raw, "sexo", h),
      edad |-> ColumnDtype(raw, "edad", h),
      fecha_inicio_sintomas |-> ColumnDtype(raw, "fecha_inicio_sintomas", h),
      fecha_apertura |-> ColumnDtype(raw, "fecha_apertura", h),
      fecha_fallecimiento |-> ColumnDtype(raw, "fecha_fallecimiento", h),
      asistencia_respiratoria_mecanica |-> ColumnDtype(raw, "asistencia_respiratoria_mecanica", h),
      carga_provincia_id |-> ColumnDtype(raw, "carga_provincia_id", h),
      clasificacion_resumen |-> ColumnDtype(raw, "clasificacion_resumen", h),
      residencia_provincia_id |-> ColumnDtype(raw, "residencia_provincia_id", h),
      fecha_diagnostico |-> ColumnDtype(raw, "fecha_diagnostico", h),
      residencia_departamento_id |-> ColumnDtype(raw, "residencia_departamento_id", h),
      ultima_actualizacion |-> ColumnDtype(raw, "ultima_actualizacion", h),
      origen_financiamiento |-> ColumnDtype(raw, "origen_financiamiento", h) ]

ReadCells(raw, i, h, dt) ==
    [ id_evento_caso |-> ReadCell(raw, i, "id_evento_caso", h, dt.id_evento_caso),
      sexo |-> ReadCell(raw, i, "sexo", h, dt.sexo),
      edad |-> ReadCell(raw, i, "edad", h, dt.edad),
      fecha_inicio_sintomas |-> ReadCell(raw, i, "fecha_inicio_sintomas", h, dt.fecha_inicio_sintomas),
      fecha_apertura |-> ReadCell(raw, i, "fecha_apertura", h, dt.fecha_apertura),
      fecha_fallecimiento |-> ReadCell(raw, i, "fecha_fallecimiento", h, dt.fecha_fallecimiento),
      asistencia_respiratoria_mecanica |-> ReadCell(raw, i, "asistencia_respiratoria_mecanica", h, dt.asistencia_respiratoria_mecanica),
      carga_provincia_id |-> ReadCell(raw, i, "carga_provincia_id", h, dt.carga_provincia_id),
      clasificacion_resumen |-> ReadCell(raw, i, "clasificacion_resumen", h, dt.clasificacion_resumen),
      residencia_provincia_id |-> ReadCell(raw, i, "residencia_provincia_id", h, dt.residencia_provincia_id),
      fecha_diagnostico |-> ReadCell(raw, i, "fecha_diagnostico", h, dt.fecha_diagnostico),
      residencia_departamento_id |-> ReadCell(raw, i, "residencia_departamento_id", h, dt.residencia_departamento_id),
      ultima_actualizacion |-> ReadCell(raw, i, "ultima_actualizacion", h, dt.ultima_actualizacion),
      origen_financiamiento |-> ReadCell(raw, i, "origen_financiamiento", h, dt.origen_financiamiento) ]

\* pd.read_csv(..., chunksize): one chunk of a file with header h, whose first
\* row has index label first.
ReadCsv(raw, h, first) ==
    LET dt == ReadDtypes(raw, h)
        RECURSIVE rows(_)
        rows(n) == IF n = 0 THEN <<>>
                   ELSE Append(rows(n - 1),
                               [idx |-> first + n - 1, cells |-> ReadCells(raw, n, h, dt)])
    IN  [dtypes |-> dt, rows |-> rows(Len(raw))]

\* The projection onto columns: a column the dataframe lacks comes out as Missing.
ProjectRecord(r, Gone, Missing) ==
    [ id_evento_caso |-> IF r.id_evento_caso = Gone THEN Missing ELSE r.id_evento_caso,
      sexo |-> IF r.sexo = Gone THEN Missing ELSE r.sexo,
      edad |-> IF r.edad = Gone THEN Missing ELSE r.edad,
      fecha_inicio_sintomas |-> IF r.fecha_inicio_sintomas = Gone THEN Missing ELSE r.fecha_inicio_sintomas,
      fecha_apertura |-> IF r.fecha_apertura = Gone THEN Missing ELSE r.fecha_apertura,
      fecha_fallecimiento |-> IF r.fecha_fallecimiento = Gone THEN Missing ELSE r.fecha_fallecimiento,
      asistencia_respiratoria_mecanica |-> IF r.asistencia_respiratoria_mecanica = Gone THEN Missing ELSE r.asistencia_respiratoria_mecanica,
      carga_provincia_id |-> IF r.carga_provincia_id = Gone THEN Missing ELSE r.carga_provincia_id,
      clasificacion_resumen |-> IF r.clasificacion_resumen = Gone THEN Missing ELSE r.clasificacion_resumen,
      residencia_provincia_id |-> IF r.residencia_provincia_id = Gone THEN Missing ELSE r.residencia_provincia_id,
      fecha_diagnostico |-> IF r.fecha_diagnostico = Gone THEN Missing ELSE r.fecha_diagnostico,
      residencia_departamento_id |-> IF r.residencia_departamento_id = Gone THEN Missing ELSE r.residencia_departamento_id,
      ultima_actualizacion |-> IF r.ultima_actualizacion = Gone THEN Missing ELSE r.ultima_actualizacion ]

\* pd.DataFrame(df, columns=columns): an absent column is all-NaN, float64.
Project(f) ==
    [ dtypes |-> ProjectRecord(f.dtypes, NoDtype, "float64"),
      rows |-> MapSeq(f.rows, LAMBDA r : [r EXCEPT !.cells = ProjectRecord(r.cells, Absent, NaN)]) ]

\* The rename table of df.rename(columns=...).
RenameRecord(r) ==
    [ covid_case_csv_id |-> r.id_evento_caso,
      gender_id |-> r.sexo,
      age |-> r.edad,
      symptoms_start_date |-> r.fecha_inicio_sintomas,
      registration_date |-> r.fecha_apertura,
      death_date |-> r.fecha_fallecimiento,
      respiratory_assistance |-> r.asistencia_respiratoria_mecanica,
      registration_state_id |-> r.carga_provincia_id,
      clasification |-> r.clasificacion_resumen,
      residence_state_id |-> r.residencia_provincia_id,
      diagnosis_date |-> r.fecha_diagnostico,
      residence_department_id |-> r.residencia_departamento_id,
      last_update |-> r.ultima_actualizacion ]

Rename(f) ==
    [ dtypes |-> RenameRecord(f.dtypes),
      rows |-> MapSeq(f.rows, LAMBDA r : [r EXCEPT !.cells = RenameRecord(r.cells)]) ]

\* The chunk dataframe the try block starts from.
LoadChunk(raw, h, first) == Rename(Project(ReadCsv(raw, h, first)))

Keep(f, Test(_)) == [f EXCEPT !.rows = SelectSeq(f.rows, Test)]

----------------------------------------------------------------------------
(* The filter sequence of the try block *)

\* df.dropna(subset=['covid_case_csv_id'])
DropNaId(f) == Keep(f, LAMBDA r : r.cells.covid_case_csv_id # NaN)

\* .str exists only on an object column
StrAccessorOk(f) == f.dtypes.registration_date = "object"

\* YearMatches comparing one character too few.
YearMatchesThree(cell) == cell.k = "str" /\ StrSlice(cell.s, 3) = SubSeq(TargetYear, 1, 3)

YearMatches(cell) == cell.k = "str" /\ StrSlice(cell.s, 4) = TargetYear

\* df.drop(df[df.registration_date.str[:4] != '2022'].index)
YearFilter(f) == Keep(f, LAMBDA r : YearMatches(r.cells.registration_date))

\* Whether row i of rows is the first one carrying its covid_case_csv_id.
FirstOccurrence(rows, i) ==
    \A j \in 1..(i - 1) : rows[j].cells.covid_case_csv_id # rows[i].cells.covid_case_csv_id

\* df.drop_duplicates(subset=['covid_case_csv_id']): the first occurrence stays
DropDuplicates(f) ==
    LET RECURSIVE pick(_)
        pick(n) == IF n = 0 THEN <<>>
                   ELSE IF FirstOccurrence(f.rows, n) THEN Append(pick(n - 1), f.rows[n])
                   ELSE pick(n - 1)
    IN  [f EXCEPT !.rows = pick(Len(f.rows))]

IsZero(cell) == cell.k \in {"int", "float"} /\ cell.v = 0

\* df.drop(df[df['registration_state_id'] == 0].index)
DropZeroState(f) == Keep(f, LAMBDA r : ~IsZero(r.cells.registration_state_id))

\* df.dropna(subset=['age'])
DropNaAge(f) == Keep(f, LAMBDA r : r.cells.age # NaN)

\* Whether astype('int64') accepts one (non-missing) cell: a string goes through int().
CastOk(cell) ==
    \/ cell.k \in {"int", "float"}
    \/ cell.k = "str" /\ IsDigits(cell.s)

\* CastInt taking every number for a float.
CastIntScaled(cell) ==
    IF cell.k = "str" THEN [k |-> "int", v |-> IntVal(cell.s)]
    ELSE [k |-> "int", v |-> cell.v \div 10]

\* astype('int64') on one cell: a float is truncated.
CastInt(cell) ==
    IF cell.k = "int" THEN cell
    ELSE IF cell.k = "float" THEN [k |-> "int", v |-> cell.v \div 10]
    ELSE [k |-> "int", v |-> IntVal(cell.s)]

AsTypeOk(f) == \A i \in 1..Len(f.rows) : CastOk(f.rows[i].cells.age)

\* df['age'] = df['age'].astype('int64')
AsTypeInt64(f) ==
    [ dtypes |-> [f.dtypes EXCEPT !.age = "int64"],
      rows |-> MapSeq(f.rows, LAMBDA r : [r EXCEPT !.cells.age = CastInt(r.cells.age)]) ]

\* Transform with drop_duplicates moved behind the zero-state and age filters.
TransformDedupLate(f) ==
    LET a == DropNaId(f)
    IN  IF ~StrAccessorOk(a) THEN [err |-> "AttributeError"]
        ELSE LET e == DropDuplicates(DropNaAge(DropZeroState(YearFilter(a))))
             IN  IF ~AsTypeOk(e) THEN [err |-> "ValueError"]
                 ELSE [err |-> "none", frame |-> AsTypeInt64(e)]

\* Lines 207-223: the dataframe handed to to_sql, or the exception raised.
Transform(f) ==
    LET a == DropNaId(f)
    IN  IF ~StrAccessorOk(a) THEN [err |-> "AttributeError"]
        ELSE LET e == DropNaAge(DropZeroState(DropDuplicates(YearFilter(a))))
             IN  IF ~AsTypeOk(e) THEN [err |-> "ValueError"]
                 ELSE [err |-> "none", frame |-> AsTypeInt64(e)]

----------------------------------------------------------------------------
(* The sink *)

\* The value the sink stores for a cell: NaN is NULL, and a numeric column of
\* the table holds 1.0 and 1 as the same number.
SqlValue(cell) ==
    IF cell.k = "float" /\ cell.v % 10 = 0 THEN [k |-> "int", v |-> cell.v \div 10]
    ELSE cell

\* The serial covid_case_id of the i-th row inserted from key k on.
SerialKey(k, i) == k + i - 1

InsertRow(key, r) ==
    [ covid_case_id |-> key,
      covid_case_csv_id |-> SqlValue(r.covid_case_csv_id),
      gender_id |-> SqlValue(r.gender_id),
      age |-> SqlValue(r.age),
      symptoms_start_date |-> SqlValue(r.symptoms_start_date),
      registration_date |-> SqlValue(r.registration_date),
      death_date |-> SqlValue(r.death_date),
      respiratory_assistance |-> SqlValue(r.respiratory_assistance),
      registration_state_id |-> SqlValue(r.registration_state_id),
      clasification |-> SqlValue(r.clasification),
      residence_state_id |-> SqlValue(r.residence_state_id),
      diagnosis_date |-> SqlValue(r.diagnosis_date),
      residence_department_id |-> SqlValue(r.residence_department_id),
      last_update |-> SqlValue(r.last_update) ]

\* df.to_sql('covid19_case', engine, index=False, if_exists='append')
ToSql(f, k) == { InsertRow(SerialKey(k, i), f.rows[i].cells) : i \in 1..Len(f.rows) }

\* SQL's "=": never true of a NULL.
SqlEq(x, y) == x # NaN /\ y # NaN /\ x = y

Min(S) == CHOOSE m \in S : \A n \in S : m <= n

\* DuplicateGroups selecting MAX(covid_case_id).
DuplicateGroupsMax(t) ==
    { [ covid_case_id |->
            CHOOSE m \in {q.covid_case_id : q \in {q \in t : q.covid_case_csv_id = g}} :
                \A q \in {q \in t : q.covid_case_csv_id = g} : q.covid_case_id <= m,
        covid_case_csv_id |-> g ]
      : g \in {g \in {r.covid_case_csv_id : r \in t} :
                  Cardinality({q \in t : q.covid_case_csv_id = g}) > 1} }

\* SELECT MIN(covid_case_id), covid_case_csv_id FROM covid19_case
\*   GROUP BY covid_case_csv_id HAVING COUNT(*) > 1
DuplicateGroups(t) ==
    { [ covid_case_id |-> Min({q.covid_case_id : q \in {q \in t : q.covid_case_csv_id = g}}),
        covid_case_csv_id |-> g ]
      : g \in {g \in {r.covid_case_csv_id : r \in t} :
                  Cardinality({q \in t : q.covid_case_csv_id = g}) > 1} }

\* DeleteWhere with = for <>.
DeleteWhereSameKey(a, b) ==
    SqlEq(a.covid_case_csv_id, b.covid_case_csv_id) /\ a.covid_case_id = b.covid_case_id

\* Whether the DELETE's WHERE clause selects row a joined with row b.
DeleteWhere(a, b) ==
    SqlEq(a.covid_case_csv_id, b.covid_case_csv_id) /\ a.covid_case_id # b.covid_case_id

\* DELETE FROM covid19_case a USING (...) b WHERE ...: the rows left.
DeleteDuplicates(t) ==
    {a \in t : ~ \E b \in DuplicateGroups(t) : DeleteWhere(a, b)}

Stmt(ev, tbl) == [ev |-> ev, tbl |-> tbl]

\* The DELETE statement on table t, with the row count the sink reports for it.
DeleteStmt(t) ==
    [ ev |-> "delete", tbl |-> "covid19_case",
      rowcount |-> Cardinality(t) - Cardinality(DeleteDuplicates(t)) ]

----------------------------------------------------------------------------
(* Tables the sink may hold *)

SinkRow(key, id) ==
    [ covid_case_id |-> key,
      covid_case_csv_id |-> id,
      gender_id |-> NaN,
      age |-> NaN,
      symptoms_start_date |-> NaN,
      registration_date |-> NaN,
      death_date |-> NaN,
      respiratory_assistance |-> NaN,
      registration_state_id |-> NaN,
      clasification |-> NaN,
      residence_state_id |-> NaN,
      diagnosis_date |-> NaN,
      residence_department_id |-> NaN,
      last_update |-> NaN ]

SinkIds == {NaN, [k |-> "int", v |-> 1], [k |-> "int", v |-> 2]}

TablesOver(keys) ==
    UNION { {{SinkRow(key, f[key]) : key \in K} : f \in [K -> SinkIds]} : K \in SUBSET keys }

\* covid19_case as an earlier run left it: keys 1..MaxPrior are taken.
PriorTables == TablesOver(1..MaxPrior)

\* Any contents of covid19_case of at most MaxTableRows rows.
AnyTables == TablesOver(1..MaxTableRows)

----------------------------------------------------------------------------
(* The script *)

\* Lines 184-223 on one chunk raw of a file with header h: whether the chunk is
\* short (the last of the file) and what the try block makes of it up to to_sql.
\* The index labels do not reach the sink (index=False), so they start at 0 here.
ChunkOutcome(raw, h) ==
    [h |-> h, short |-> Len(raw) < ChunkSize, res |-> Transform(LoadChunk(raw, h, 0))]

\* The outcomes of every chunk of every file.
Outcomes == UNION { {ChunkOutcome(raw, h) : raw \in RawChunks(h)} : h \in Headers }

Init ==
    /\ pc = "truncate"
    /\ header \in Headers
    /\ table \in PriorTables
    /\ nextKey = MaxPrior + 1
    /\ chunkNo = 0
    /\ eof = FALSE
    /\ log = <<>>
    /\ df = <<>>
    /\ out = <<>>

\* Truncate without the statement for covid19_case.
TruncateTwo ==
    /\ pc = "truncate"
    /\ log' = log \o << [ev |-> "truncate", tbl |-> "state"],
                        [ev |-> "truncate", tbl |-> "department"] >>
    /\ pc' = "load_state"
    /\ UNCHANGED <<header, table, nextKey, chunkNo, eof, df, out>>

\* Lines 91-100: the three TRUNCATE statements.
Truncate ==
    /\ pc = "truncate"
    /\ table' = {}
    /\ log' = log \o << Stmt("truncate", "state"), Stmt("truncate", "department"),
                        Stmt("truncate", "covid19_case") >>
    /\ pc' = "load_state"
    /\ UNCHANGED <<header, nextKey, chunkNo, eof, df, out>>

\* Lines 103-136: provincias.csv into state.
LoadState ==
    /\ pc = "load_state"
    /\ log' = Append(log, Stmt("append", "state"))
    /\ pc' = "load_department"
    /\ UNCHANGED <<header, table, nextKey, chunkNo, eof, df, out>>

\* Lines 139-169: departamentos.csv into department.
LoadDepartment ==
    /\ pc = "load_department"
    /\ log' = Append(log, Stmt("append", "department"))
    /\ pc' = "chunks"
    /\ UNCHANGED <<header, table, nextKey, chunkNo, eof, df, out>>

\* The iterator yields another chunk.
MoreChunks == pc = "chunks" /\ ~eof /\ chunkNo < MaxChunks

\* Reraise as an except clause that swallows the exception: the loop goes on.
Swallow == "chunks"

\* The position of the script after the except clause (a bare raise).
Reraise == "failed"

\* Lines 184-232: one pass of the loop body that reaches the end of to_sql.
ProcessChunk ==
    /\ MoreChunks
    /\ \E o \in Outcomes :
          /\ o.h = header
          /\ o.res.err = "none"
          /\ table' = table \cup ToSql(o.res.frame, nextKey)
          /\ nextKey' = nextKey + Len(o.res.frame.rows)
          /\ log' = Append(log, [ ev |-> "append", tbl |-> "covid19_case",
                                  chunk |-> chunkNo + 1,
                                  rows |-> ToSql(o.res.frame, nextKey) ])
          /\ eof' = o.short
    /\ chunkNo' = chunkNo + 1
    /\ UNCHANGED <<pc, header, df, out>>

\* Lines 206-234: a filter step raises and the except clause re-raises.
ChunkRaises ==
    /\ MoreChunks
    /\ \E o \in Outcomes :
          /\ o.h = header
          /\ o.res.err # "none"
          /\ log' = Append(log, [ ev |-> "raise", tbl |-> "covid19_case",
                                  chunk |-> chunkNo + 1, err |-> o.res.err ])
    /\ pc' = Reraise
    /\ chunkNo' = chunkNo + 1
    /\ UNCHANGED <<header, table, nextKey, eof, df, out>>

\* Lines 226-234: to_sql raises (the sink rejects the batch) and nothing is inserted.
AppendFails ==
    /\ MoreChunks
    /\ \E o \in Outcomes : o.h = header /\ o.res.err = "none"
    /\ log' = Append(log, [ ev |-> "raise", tbl |-> "covid19_case",
                            chunk |-> chunkNo + 1, err |-> "SinkWriteError" ])
    /\ pc' = Reraise
    /\ chunkNo' = chunkNo + 1
    /\ UNCHANGED <<header, table, nextKey, eof, df, out>>

\* Line 184: the iterator is exhausted and the loop ends.
EndOfFile ==
    /\ pc = "chunks"
    /\ pc' = "cleanup"
    /\ UNCHANGED <<header, table, nextKey, chunkNo, eof, log, df, out>>

\* Cleanup with the DELETE statement inside the loop body.
CleanupInLoop ==
    /\ \/ pc = "chunks" /\ log # <<>> /\ log[Len(log)].ev = "append"
                        /\ log[Len(log)].tbl = "covid19_case"
       \/ pc = "cleanup"
    /\ table' = DeleteDuplicates(table)
    /\ log' = Append(log, DeleteStmt(table))
    /\ pc' = IF pc = "cleanup" THEN "done" ELSE pc
    /\ UNCHANGED <<header, nextKey, chunkNo, eof, df, out>>

\* Lines 239-248: the DELETE statement.
Cleanup ==
    /\ pc = "cleanup"
    /\ table' = DeleteDuplicates(table)
    /\ log' = Append(log, DeleteStmt(table))
    /\ pc' = "done"
    /\ UNCHANGED <<header, nextKey, chunkNo, eof, df, out>>

Next ==
    \/ Truncate
    \/ LoadState
    \/ LoadDepartment
    \/ ProcessChunk
    \/ ChunkRaises
    \/ AppendFails
    \/ EndOfFile
    \/ Cleanup

Spec == Init /\ [][Next]_vars

----------------------------------------------------------------------------
(* The filter sequence on its own: any chunk of a complete file, filtered,  *)
(* and the result filtered again.                                          *)

InitChunk ==
    /\ pc = "filter"
    /\ header = FullHeader
    /\ table = {}
    /\ nextKey = 1
    /\ chunkNo = 0
    /\ eof = FALSE
    /\ log = <<>>
    /\ df \in {LoadChunk(raw, FullHeader, 0) : raw \in RawChunks(FullHeader)}
    /\ out = <<>>

\* Lines 207-223 on df.
ApplyFilters ==
    /\ pc = "filter"
    /\ out = <<>>
    /\ out' = <<Transform(df)>>
    /\ UNCHANGED <<pc, header, table, nextKey, chunkNo, eof, log, df>>

\* Lines 207-223 on the dataframe they produced.
FilterAgain ==
    /\ pc = "filter"
    /\ Len(out) = 1
    /\ out[1].err = "none"
    /\ out' = Append(out, Transform(out[1].frame))
    /\ UNCHANGED <<pc, header, table, nextKey, chunkNo, eof, log, df>>

NextChunk == ApplyFilters \/ FilterAgain

SpecChunk == InitChunk /\ [][NextChunk]_vars

----------------------------------------------------------------------------
(* The DELETE statement on its own: any table, cleaned up, and cleaned up  *)
(* again.                                                                  *)

InitCleanup ==
    /\ pc = "cleanup"
    /\ header = FullHeader
    /\ table \in AnyTables
    /\ nextKey = MaxTableRows + 1
    /\ chunkNo = 0
    /\ eof = FALSE
    /\ log = <<>>
    /\ df = <<>>
    /\ out = <<>>

\* Lines 239-248 executed a second time.
CleanupAgain ==
    /\ pc = "done"
    /\ Len(log) = 1
    /\ table' = DeleteDuplicates(table)
    /\ log' = Append(log, DeleteStmt(table))
    /\ UNCHANGED <<pc, header, nextKey, chunkNo, eof, df, out>>

NextCleanup == Cleanup \/ CleanupAgain

SpecCleanup == InitCleanup /\ [][NextCleanup]_vars

----------------------------------------------------------------------------
(* Properties *)

\* The log positions of the appends to covid19_case.
CaseAppends == {i \in DOMAIN log : log[i].ev = "append" /\ log[i].tbl = "covid19_case"}

\* Every row the loop has inserted.
Appended == UNION {log[i].rows : i \in CaseAppends}

StartsWithYear(cell) ==
    /\ cell.k = "str"
    /\ Len(cell.s) >= 4
    /\ \A i \in 1..4 : cell.s[i] = TargetYear[i]

CleanRecord(r) ==
    /\ r.covid_case_csv_id # NaN
    /\ StartsWithYear(r.registration_date)
    /\ ~(r.registration_state_id.k \in {"int", "float"} /\ r.registration_state_id.v = 0)
    /\ r.age.k = "int"
    /\ r.age.v \in Int

\* C1: every record the loop appends to covid19_case, from any chunk of any
\* file, has a case identifier that is not missing, a registration date that
\* starts with 2022, a registration-state identifier other than 0, and an age
\* that is not missing and is an integer; so has every row of the table once
\* it is truncated.
C1_AppendedRecordsClean ==
    /\ \A r \in Appended : CleanRecord(r)
    /\ pc # "truncate" => \A r \in table : CleanRecord(r)

\* A full chunk has been read, and one record of it was dropped, one appended.
C1_Witness ==
    /\ pc = "chunks"
    /\ chunkNo = 1
    /\ ~eof
    /\ Cardinality(table) = 1

\* Whether row r of the chunk passes the identifier filter and the year filter.
PassesIdAndYear(r) ==
    /\ r.cells.covid_case_csv_id # NaN
    /\ StartsWithYear(r.cells.registration_date)

\* C2: no two records a chunk emits share a case identifier, and an emitted
\* record is the first one in file order, among the chunk's records that pass
\* the identifier filter and the year filter, carrying its case identifier;
\* a later occurrence is never emitted, whatever the later filters do to the
\* first.
C2_FirstOccurrenceWins ==
    (out # <<>> /\ out[1].err = "none") =>
        LET rows == out[1].frame.rows
        IN  /\ \A i, j \in 1..Len(rows) :
                  i # j => rows[i].cells.covid_case_csv_id # rows[j].cells.covid_case_csv_id
            /\ \A i \in 1..Len(rows) :
                  /\ \E j \in 1..Len(df.rows) : df.rows[j].idx = rows[i].idx
                  /\ \A j \in 1..Len(df.rows) :
                        ( /\ PassesIdAndYear(df.rows[j])
                          /\ df.rows[j].cells.covid_case_csv_id = rows[i].cells.covid_case_csv_id )
                        => rows[i].idx <= df.rows[j].idx

\* Two records of the chunk carry the same identifier and pass the identifier
\* and year filters; the first has registration state 0, the second has not and
\* has an age; neither is emitted.
C2_Witness ==
    /\ Len(out) = 1
    /\ out[1].err = "none"
    /\ out[1].frame.rows = <<>>
    /\ Len(df.rows) = 2
    /\ PassesIdAndYear(df.rows[1])
    /\ PassesIdAndYear(df.rows[2])
    /\ df.rows[1].cells.covid_case_csv_id = df.rows[2].cells.covid_case_csv_id
    /\ df.rows[1].cells.registration_state_id.v = 0
    /\ df.rows[2].cells.registration_state_id.v # 0
    /\ df.rows[2].cells.age # NaN

\* What the DELETE statement must make of table t: u.
CleanupResult(t, u) ==
    /\ u \subseteq t
    /\ \A g \in {r.covid_case_csv_id : r \in t} \ {NaN} :
          LET same == {r \in t : r.covid_case_csv_id = g}
          IN  IF Cardinality(same) > 1
              THEN {r \in u : r.covid_case_csv_id = g}
                       = {r \in same : \A q \in same : r.covid_case_id <= q.covid_case_id}
              ELSE same \subseteq u
    /\ \A r, q \in u :
          (r # q /\ r.covid_case_csv_id # NaN) => r.covid_case_csv_id # q.covid_case_csv_id

\* C3: whatever covid19_case holds, the DELETE statement leaves, of every case
\* identifier that had more than one row, exactly the row with the least
\* covid_case_id; it leaves every row whose identifier occurred once; and no
\* two rows left share a case identifier that is not missing.
C3_CleanupKeepsMinimum ==
    [][(pc = "cleanup" /\ pc' = "done") => CleanupResult(table, table')]_vars

\* The statement has run on a table and deleted two rows or more of it, and
\* rows are left.
C3_Witness ==
    /\ pc = "done"
    /\ Len(log) = 1
    /\ log[1].rowcount >= 2
    /\ Cardinality(table) >= 2

\* C4 (as claimed): when the header of the case file lacks a projected column,
\* the run fails before any chunk is processed: no record is appended to
\* covid19_case and the DELETE statement is not reached.
C4_MissingColumnFailsFast ==
    header # FullHeader =>
        /\ \A i \in CaseAppends : log[i].rows = {}
        /\ \A i \in DOMAIN log : log[i].ev # "delete"

\* C5: when the loop body raises for chunk k, the run is over: nothing of chunk
\* k or of a later chunk is appended, the DELETE statement is not executed, and
\* the table holds what chunks 1..k-1 appended.
C5_FailureAbortsRun ==
    \A i \in DOMAIN log :
        log[i].ev = "raise" =>
            /\ i = Len(log)
            /\ pc = "failed"
            /\ \A j \in CaseAppends : log[j].chunk < log[i].chunk
            /\ \A j \in DOMAIN log : log[j].ev # "delete"
            /\ table = Appended

\* The second chunk raised in the age conversion and the rows of the first are
\* in the table.
C5_Witness ==
    /\ pc = "failed"
    /\ chunkNo = 2
    /\ log[Len(log)].err = "ValueError"
    /\ table # {}

\* C6: in a run that completes, the three tables are truncated before anything
\* is appended, the chunks are appended one by one in file order, and the
\* DELETE statement is executed once, after the append of the last chunk.
C6_OrderOfStatements ==
    pc = "done" =>
        /\ \A i \in DOMAIN log :
              log[i].ev = "append" =>
                  \A t \in {"state", "department", "covid19_case"} :
                      \E j \in 1..(i - 1) : log[j] = [ev |-> "truncate", tbl |-> t]
        /\ \A i, j \in DOMAIN log :
              (log[i].ev = "truncate" /\ log[j].ev = "append") => i < j
        /\ \A i, j \in CaseAppends : i < j <=> log[i].chunk < log[j].chunk
        /\ {log[i].chunk : i \in CaseAppends} = 1..chunkNo
        /\ Cardinality({i \in DOMAIN log : log[i].ev = "delete"}) = 1
        /\ log[Len(log)].ev = "delete"

\* A run of two chunks, each appending records, has completed.
C6_Witness ==
    /\ pc = "done"
    /\ chunkNo = 2
    /\ \A i \in CaseAppends : log[i].rows # {}

\* C7: executing the DELETE statement again right after it has been executed
\* deletes nothing.
C7_CleanupIdempotent == [][pc = "done" => table' = table]_vars

\* The statement has been executed twice, and the first execution deleted rows.
C7_Witness ==
    /\ pc = "done"
    /\ Len(log) = 2
    /\ log[1].rowcount >= 1

\* C8: the filter sequence applied to its own output succeeds and returns the
\* same records, in the same order, with the same values.
C8_FiltersIdempotent == Len(out) = 2 => out[2] = out[1]

\* The sequence has been applied twice to a chunk of which it dropped a record
\* and kept one, converting its age from float64.
C8_Witness ==
    /\ Len(out) = 2
    /\ Len(df.rows) = 2
    /\ df.dtypes.age = "float64"
    /\ Len(out[1].frame.rows) = 1

\* Whether a cell holds an age that is not an integer.
NonIntegerAge(cell) ==
    \/ cell.k = "str" /\ \E i \in 1..Len(cell.s) : cell.s[i] \notin Digit
    \/ cell.k = "float" /\ cell.v % 10 # 0

\* Whether row j of the chunk passes every filter before the age conversion.
Survives(j) ==
    /\ PassesIdAndYear(df.rows[j])
    /\ \A i \in 1..(j - 1) :
          PassesIdAndYear(df.rows[i]) =>
              df.rows[i].cells.covid_case_csv_id # df.rows[j].cells.covid_case_csv_id
    /\ ~(df.rows[j].cells.registration_state_id.k \in {"int", "float"}
           /\ df.rows[j].cells.registration_state_id.v = 0)
    /\ df.rows[j].cells.age # NaN

\* C9 (as claimed): the age conversion fails the chunk exactly when a record
\* with an age that is not an integer passes the identifier, year, duplicate and
\* zero-state filters.
C9_ConversionFailsIffSurvivorNonInteger ==
    out # <<>> =>
        ( out[1].err = "ValueError"
            <=> \E j \in 1..Len(df.rows) : Survives(j) /\ NonIntegerAge(df.rows[j].cells.age) )

\* The case identifiers the loop has appended, and the chunks that emitted one.
EmittedIds == {r.covid_case_csv_id : r \in Appended}

ChunksWith(id) == {log[i].chunk : i \in {j \in CaseAppends : \E r \in log[j].rows : r.covid_case_csv_id = id}}

\* C10: when the run completes, the table holds no row it held before the run,
\* and for every case identifier some chunk emitted it holds exactly one row,
\* the one appended by the earliest chunk that emitted the identifier; before
\* the DELETE statement it holds one row per chunk that emitted the identifier.
C10_EndToEnd ==
    /\ pc = "done" =>
          /\ table \subseteq Appended
          /\ \A id \in EmittedIds :
                \E i \in CaseAppends :
                    /\ \A c \in ChunksWith(id) : log[i].chunk <= c
                    /\ \E r \in log[i].rows :
                          {q \in table : q.covid_case_csv_id = id} = {r}
    /\ pc = "cleanup" =>
          \A id \in EmittedIds :
              Cardinality({q \in table : q.covid_case_csv_id = id})
                  = Cardinality(ChunksWith(id))

\* A run has completed in which two chunks emitted the same case identifier.
C10_Witness ==
    /\ pc = "done"
    /\ \E id \in EmittedIds : Cardinality(ChunksWith(id)) = 2

====
